---- MODULE Spec2Model ----
(***************************************************************************)
(* PipelineBuilder of mongo_pipebuilder (src/src/mongo_pipebuilder/        *)
(* builder.py) as a state machine over a heap of Python objects.           *)
(*                                                                         *)
(* A Python value is a record of one shape: scalars carry their kind and   *)
(* payload, a reference carries the heap index of a dict or a list.  A     *)
(* heap object is a dict (insertion-ordered keys and their values) or a    *)
(* list (its items).  A "deep" value is the same record with every         *)
(* reference replaced by the object it points to: it is what == compares   *)
(* in Python.                                                              *)
(***************************************************************************)
EXTENDS Integers, Sequences, FiniteSets, TLC

VARIABLES
    heap,       \* the objects allocated so far, by identity
    builders,   \* builders[x]: heap index of builder x's _stages list
    arg,        \* the last dict/list the caller built and passed (None: none)
    res,        \* the list returned by the last build() (None: none)
    got,        \* the value returned by the last get_stage_at() (None: none)
    last,       \* the last step: its name, its receiver, how it ended
    file,       \* the document the last to_json_file() wrote, read back (NoneV: no file)
    steps       \* the number of steps taken

vars == <<heap, builders, arg, res, got, last, file, steps>>

\* Bounds of the model: the steps of a run, the builders of a run
MaxSteps == 3
MaxBuilders == 2

(***************************************************************************)
(* Python values                                                           *)
(***************************************************************************)
Val(k, n, s, keys, items) ==
    [k |-> k, n |-> n, s |-> s, keys |-> keys, items |-> items]
NoneV == Val("none", 0, "", <<>>, <<>>)
IntV(n) == Val("int", n, "", <<>>, <<>>)
BoolV(b) == Val("bool", IF b THEN 1 ELSE 0, "", <<>>, <<>>)
StrV(s) == Val("str", 0, s, <<>>, <<>>)
Ref(i) == Val("ref", i, "", <<>>, <<>>)
DictV(keys, items) == Val("dict", 0, "", keys, items)
ListV(items) == Val("list", 0, "", <<>>, items)

IsNone(v) == v.k = "none"
IsStr(v) == v.k = "str"
\* isinstance(v, int): bool is a subclass of int
IsInt(v) == v.k \in {"int", "bool"}
IsDict(h, v) == v.k = "ref" /\ h[v.n].k = "dict"
IsList(h, v) == v.k = "ref" /\ h[v.n].k = "list"
\* bool(v)
Truthy(h, v) ==
    CASE v.k = "none" -> FALSE
      [] v.k \in {"int", "bool"} -> v.n # 0
      [] v.k = "str" -> v.s # ""
      [] OTHER -> Len(h[v.n].items) > 0

Range(f) == {f[i] : i \in DOMAIN f}
IndexOf(f, e) == CHOOSE i \in DOMAIN f : f[i] = e /\ \A j \in 1..(i - 1) : f[j] # e

\* d[key] = v on a dict object: a present key keeps its place
DictSet(o, key, v) ==
    IF key \in Range(o.keys)
    THEN [o EXCEPT !.items[IndexOf(o.keys, key)] = v]
    ELSE [o EXCEPT !.keys = Append(@, key), !.items = Append(@, v)]
DictGet(o, key) == o.items[IndexOf(o.keys, key)]

\* {**a, **b}: b's entries are set one by one, in order, on a
RECURSIVE DictMerge(_, _, _)
DictMerge(a, b, i) ==
    IF i > Len(b.keys) THEN a
    ELSE DictMerge(DictSet(a, b.keys[i], b.items[i]), b, i + 1)

(***************************************************************************)
(* The heap                                                                *)
(***************************************************************************)
\* Evaluating a literal: the nested objects are created first, then the
\* object that holds them.  [h: the heap after, v: the value]
RECURSIVE Alloc(_, _), AllocSeq(_, _)
Alloc(h, d) ==
    IF d.k \in {"dict", "list"}
    THEN LET r == AllocSeq(h, d.items)
         IN  [h |-> Append(r.h, [d EXCEPT !.items = r.vs]), v |-> Ref(Len(r.h) + 1)]
    ELSE [h |-> h, v |-> d]
AllocSeq(h, ds) ==
    IF ds = <<>> THEN [h |-> h, vs |-> <<>>]
    ELSE LET a == Alloc(h, Head(ds))
             r == AllocSeq(a.h, Tail(ds))
         IN  [h |-> r.h, vs |-> <<a.v>> \o r.vs]

\* The structure a value denotes (what == compares)
RECURSIVE Deep(_, _)
Deep(h, v) ==
    IF v.k = "ref"
    THEN LET o == h[v.n]
         IN  [o EXCEPT !.items = [i \in DOMAIN o.items |-> Deep(h, o.items[i])]]
    ELSE v

\* The objects reachable from a value
RECURSIVE Reach(_, _)
Reach(h, v) ==
    IF v.k = "ref"
    THEN {v.n} \cup UNION {Reach(h, h[v.n].items[i]) : i \in DOMAIN h[v.n].items}
    ELSE {}

\* list.append(v), list.insert(pos, v), list.copy()
ListAppend(h, l, v) == [h EXCEPT ![l].items = Append(@, v)]
\* (ListInsert_After: an insert that puts v after the element at pos)
ListInsert_After(h, l, pos, v) ==
    LET n == Len(h[l].items)
        p == IF pos + 1 > n THEN n ELSE pos + 1
    IN  [h EXCEPT ![l].items = SubSeq(@, 1, p) \o <<v>> \o SubSeq(@, p + 1, n)]

ListInsert(h, l, pos, v) ==
    LET n == Len(h[l].items)
        p == IF pos < 0 THEN (IF n + pos < 0 THEN 0 ELSE n + pos)
             ELSE (IF pos > n THEN n ELSE pos)
    IN  [h EXCEPT ![l].items = SubSeq(@, 1, p) \o <<v>> \o SubSeq(@, p + 1, n)]
ListCopy(h, l) == Append(h, ListV(h[l].items))

\* How a call ends: it returns the builder, or raises
Ret(h) == [h |-> h, out |-> "self"]
Raise(h, e) == [h |-> h, out |-> e]
Errors == {"TypeError", "ValueError", "IndexError"}

\* self._stages.append({token: payload})
\* (AppendStage_AtFront: self._stages.insert(0, {token: payload}))
AppendStage_AtFront(h, l, token, payload) ==
    LET h1 == Append(h, DictV(<<token>>, <<payload>>))
    IN  [h1 EXCEPT ![l].items = <<Ref(Len(h1))>> \o @]

AppendStage(h, l, token, payload) ==
    LET h1 == Append(h, DictV(<<token>>, <<payload>>))
    IN  ListAppend(h1, l, Ref(Len(h1)))

(***************************************************************************)
(* Stage constructors                                                      *)
(***************************************************************************)
\* match, add_fields, project, sort, set_field: one body, five tokens
\* (MappingStage_Verbatim: the mapping itself is appended as the stage)
MappingStage_Verbatim(h, l, token, fields) ==
    IF IsNone(fields) THEN Raise(h, "TypeError")
    ELSE IF ~IsDict(h, fields) THEN Raise(h, "TypeError")
    ELSE IF Truthy(h, fields) THEN Ret(ListAppend(h, l, fields))
    ELSE Ret(h)

MappingStage(h, l, token, fields) ==
    IF IsNone(fields) THEN Raise(h, "TypeError")
    ELSE IF ~IsDict(h, fields) THEN Raise(h, "TypeError")
    ELSE IF Truthy(h, fields) THEN Ret(AppendStage(h, l, token, fields))
    ELSE Ret(h)

match(h, l, conditions) == MappingStage(h, l, "$match", conditions)
add_fields(h, l, fields) == MappingStage(h, l, "$addFields", fields)
project(h, l, fields) == MappingStage(h, l, "$project", fields)
sort(h, l, fields) == MappingStage(h, l, "$sort", fields)
\* A set_field that does what its docstring says of an empty mapping
set_field_RaisesOnEmpty(h, l, fields) ==
    IF IsDict(h, fields) /\ ~Truthy(h, fields) THEN Raise(h, "ValueError")
    ELSE MappingStage(h, l, "$set", fields)

set_field(h, l, fields) == MappingStage(h, l, "$set", fields)

\* args: <<from_collection, local_field, foreign_field, as_field, pipeline>>
lookup(h, l, args) ==
    LET pipeline == args[5]
        lookup_stage == DictV(<<"from", "localField", "foreignField", "as">>,
                              <<args[1], args[2], args[3], args[4]>>)
        h1 == Append(h, IF Truthy(h, pipeline)
                        THEN DictSet(lookup_stage, "pipeline", pipeline)
                        ELSE lookup_stage)
    IN  IF \E i \in 1..4 : ~IsStr(args[i]) \/ ~Truthy(h, args[i])
        THEN Raise(h, "ValueError")
        ELSE IF ~IsNone(pipeline) /\ ~IsList(h, pipeline) THEN Raise(h, "TypeError")
        ELSE IF ~IsNone(pipeline)
                /\ \E i \in DOMAIN h[pipeline.n].items : ~IsDict(h, h[pipeline.n].items[i])
        THEN Raise(h, "TypeError")
        ELSE Ret(AppendStage(h1, l, "$lookup", Ref(Len(h1))))

\* isinstance(group_by, dict) and set(group_by.keys()) == {"_id"}
\* (IdWrapper_AnyId: a guard that asks only for the key to be there)
IdWrapper_AnyId(h, group_by) ==
    IsDict(h, group_by) /\ "_id" \in Range(h[group_by.n].keys)

IdWrapper(h, group_by) ==
    IsDict(h, group_by) /\ Range(h[group_by.n].keys) = {"_id"}

\* group_by is a dict or a string, and it and accumulators are both empty
\* (BothEmpty_AnyFalsy: a check that takes every falsy group_by for empty)
BothEmpty_AnyFalsy(h, group_by, accumulators) ==
    ~Truthy(h, group_by) /\ ~Truthy(h, accumulators)

BothEmpty(h, group_by, accumulators) ==
    /\ IsDict(h, group_by) \/ IsStr(group_by)
    /\ ~Truthy(h, group_by) /\ ~Truthy(h, accumulators)

\* args: <<group_by, accumulators>>
group(h, l, args) ==
    LET group_by == args[1]
        accumulators == args[2]
        group_stage == DictMerge(DictV(<<"_id">>, <<group_by>>), h[accumulators.n], 1)
        h1 == Append(h, group_stage)
    IN  IF ~IsDict(h, accumulators) THEN Raise(h, "TypeError")
        ELSE IF IdWrapper(h, group_by) THEN Raise(h, "ValueError")
        ELSE IF BothEmpty(h, group_by, accumulators) THEN Raise(h, "ValueError")
        ELSE Ret(AppendStage(h1, l, "$group", Ref(Len(h1))))

\* args: <<path, preserve_null_and_empty_arrays, include_array_index>>
\* (unwind_IndexWhenGiven: an unwind that adds includeArrayIndex whenever the
\* argument is not None, the empty name included)
unwind_IndexWhenGiven(h, l, args) ==
    LET path == args[1]
        s0 == DictV(<<"path">>, <<path>>)
        s1 == IF Truthy(h, args[2])
              THEN DictSet(s0, "preserveNullAndEmptyArrays", BoolV(TRUE)) ELSE s0
        s2 == IF ~IsNone(args[3])
              THEN DictSet(s1, "includeArrayIndex", args[3]) ELSE s1
        h1 == Append(h, s2)
    IN  IF ~IsStr(path) THEN Raise(h, "TypeError")
        ELSE IF ~Truthy(h, path) THEN Raise(h, "ValueError")
        ELSE Ret(AppendStage(h1, l, "$unwind", Ref(Len(h1))))

unwind(h, l, args) ==
    LET path == args[1]
        s0 == DictV(<<"path">>, <<path>>)
        s1 == IF Truthy(h, args[2])
              THEN DictSet(s0, "preserveNullAndEmptyArrays", BoolV(TRUE)) ELSE s0
        s2 == IF Truthy(h, args[3])
              THEN DictSet(s1, "includeArrayIndex", args[3]) ELSE s1
        h1 == Append(h, s2)
    IN  IF ~IsStr(path) THEN Raise(h, "TypeError")
        ELSE IF ~Truthy(h, path) THEN Raise(h, "ValueError")
        ELSE Ret(AppendStage(h1, l, "$unwind", Ref(Len(h1))))

\* limit and skip: one body, two tokens
CountStage(h, l, token, n) ==
    IF ~IsInt(n) THEN Raise(h, "TypeError")
    ELSE IF n.n < 0 THEN Raise(h, "ValueError")
    ELSE IF n.n > 0 THEN Ret(AppendStage(h, l, token, n))
    ELSE Ret(h)

limit(h, l, n) == CountStage(h, l, "$limit", n)
skip(h, l, n) == CountStage(h, l, "$skip", n)

\* (unset_KeepsList: an unset that stores a list of one name as a list)
unset_KeepsList(h, l, fields) ==
    IF IsNone(fields) THEN Raise(h, "TypeError")
    ELSE IF IsStr(fields)
    THEN IF ~Truthy(h, fields) THEN Raise(h, "ValueError")
         ELSE Ret(AppendStage(h, l, "$unset", fields))
    ELSE IF IsList(h, fields)
    THEN LET items == h[fields.n].items
         IN  IF items = <<>> THEN Raise(h, "ValueError")
             ELSE IF \E i \in DOMAIN items : ~IsStr(items[i]) THEN Raise(h, "TypeError")
             ELSE IF \E i \in DOMAIN items : ~Truthy(h, items[i])
             THEN Raise(h, "ValueError")
             ELSE Ret(AppendStage(h, l, "$unset", fields))
    ELSE Raise(h, "TypeError")

unset(h, l, fields) ==
    IF IsNone(fields) THEN Raise(h, "TypeError")
    ELSE IF IsStr(fields)
    THEN IF ~Truthy(h, fields) THEN Raise(h, "ValueError")
         ELSE Ret(AppendStage(h, l, "$unset", fields))
    ELSE IF IsList(h, fields)
    THEN LET items == h[fields.n].items
         IN  IF items = <<>> THEN Raise(h, "ValueError")
             ELSE IF \E i \in DOMAIN items : ~IsStr(items[i]) THEN Raise(h, "TypeError")
             ELSE IF \E i \in DOMAIN items : ~Truthy(h, items[i])
             THEN Raise(h, "ValueError")
             ELSE Ret(AppendStage(h, l, "$unset",
                                  IF Len(items) > 1 THEN fields ELSE items[1]))
    ELSE Raise(h, "TypeError")

replace_root(h, l, new_root) ==
    IF IsNone(new_root) THEN Raise(h, "TypeError")
    ELSE IF ~IsDict(h, new_root) THEN Raise(h, "TypeError")
    ELSE IF ~Truthy(h, new_root) THEN Raise(h, "ValueError")
    ELSE IF "newRoot" \notin Range(h[new_root.n].keys) THEN Raise(h, "ValueError")
    ELSE Ret(AppendStage(h, l, "$replaceRoot", new_root))

replace_with(h, l, replacement) ==
    IF IsNone(replacement) THEN Raise(h, "ValueError")
    ELSE Ret(AppendStage(h, l, "$replaceWith", replacement))

\* The first facet (in insertion order) that is not a list of dicts decides
facet(h, l, facets) ==
    IF IsNone(facets) THEN Raise(h, "TypeError")
    ELSE IF ~IsDict(h, facets) THEN Raise(h, "TypeError")
    ELSE IF ~Truthy(h, facets) THEN Raise(h, "ValueError")
    ELSE IF \E i \in DOMAIN h[facets.n].items :
              LET value == h[facets.n].items[i]
              IN  \/ ~IsList(h, value)
                  \/ \E j \in DOMAIN h[value.n].items : ~IsDict(h, h[value.n].items[j])
    THEN Raise(h, "TypeError")
    ELSE Ret(AppendStage(h, l, "$facet", facets))

\* A count that appends before it has checked the field name to be non-empty
count_AppendsFirst(h, l, field_name) ==
    IF IsNone(field_name) THEN Raise(h, "TypeError")
    ELSE IF ~IsStr(field_name) THEN Raise(h, "TypeError")
    ELSE IF ~Truthy(h, field_name)
    THEN Raise(AppendStage(h, l, "$count", field_name), "ValueError")
    ELSE Ret(AppendStage(h, l, "$count", field_name))

count(h, l, field_name) ==
    IF IsNone(field_name) THEN Raise(h, "TypeError")
    ELSE IF ~IsStr(field_name) THEN Raise(h, "TypeError")
    ELSE IF ~Truthy(h, field_name) THEN Raise(h, "ValueError")
    ELSE Ret(AppendStage(h, l, "$count", field_name))

add_stage(h, l, stage) ==
    IF Truthy(h, stage) THEN Ret(ListAppend(h, l, stage)) ELSE Ret(h)

(***************************************************************************)
(* Sequence editing                                                        *)
(***************************************************************************)
\* (prepend_ReplacesFirst: a prepend that does self._stages[:1] = [stage])
prepend_ReplacesFirst(h, l, stage) ==
    IF IsNone(stage) THEN Raise(h, "TypeError")
    ELSE IF ~IsDict(h, stage) THEN Raise(h, "TypeError")
    ELSE IF Truthy(h, stage) THEN Ret([h EXCEPT ![l].items = <<stage>> \o SubSeq(@, 2, Len(@))])
    ELSE Ret(h)

prepend(h, l, stage) ==
    IF IsNone(stage) THEN Raise(h, "TypeError")
    ELSE IF ~IsDict(h, stage) THEN Raise(h, "TypeError")
    ELSE IF Truthy(h, stage) THEN Ret(ListInsert(h, l, 0, stage))
    ELSE Ret(h)

insert_at(h, l, position, stage) ==
    IF IsNone(stage) THEN Raise(h, "TypeError")
    ELSE IF ~IsDict(h, stage) THEN Raise(h, "TypeError")
    ELSE IF ~Truthy(h, stage) THEN Ret(h)
    ELSE IF position < 0 \/ position > Len(h[l].items) THEN Raise(h, "IndexError")
    ELSE Ret(ListInsert(h, l, position, stage))

\* (clear_ReturnsNone: a clear that ends without `return self`)
clear_ReturnsNone(h, l) == [h |-> [h EXCEPT ![l].items = <<>>], out |-> "none"]

clear(h, l) == Ret([h EXCEPT ![l].items = <<>>])

\* copy(): the new builder's list is self._stages.copy(); [h, v: the new list]
\* (copy_SameList: a copy whose builder keeps the list of the original)
copy_SameList(h, l) == [h |-> h, v |-> l]

copy(h, l) == [h |-> ListCopy(h, l), v |-> Len(h) + 1]

(***************************************************************************)
(* Introspection                                                           *)
(***************************************************************************)
\* build(): [h, v: the returned list]
\* (build_NoCopy: a build that hands out self._stages itself)
build_NoCopy(h, l) == [h |-> h, v |-> l]

build(h, l) == [h |-> ListCopy(h, l), v |-> Len(h) + 1]

\* copy.deepcopy(v): a fresh object for every object under v
\* (deepcopy_Shallow: copy.copy(v), a fresh object for v alone)
deepcopy_Shallow(h, v) ==
    IF v.k = "ref" THEN [h |-> Append(h, h[v.n]), v |-> Ref(Len(h) + 1)]
    ELSE [h |-> h, v |-> v]

deepcopy(h, v) == Alloc(h, Deep(h, v))

\* get_stage_at(index): [h, out, v: the returned stage]
\* (get_stage_at_Wraps: self._stages[index] without the range check, where a
\* negative index counts from the end)
get_stage_at_Wraps(h, l, index) ==
    LET n == Len(h[l].items)
    IN  IF index < -n \/ index >= n
        THEN [h |-> h, out |-> "IndexError", v |-> NoneV]
        ELSE LET c == deepcopy(h, h[l].items[IF index < 0 THEN n + index + 1
                                                          ELSE index + 1])
             IN  [h |-> c.h, out |-> "value", v |-> c.v]

get_stage_at(h, l, index) ==
    IF index < 0 \/ index >= Len(h[l].items)
    THEN [h |-> h, out |-> "IndexError", v |-> NoneV]
    ELSE LET c == deepcopy(h, h[l].items[index + 1])
         IN  [h |-> c.h, out |-> "value", v |-> c.v]

len(h, l) == Len(h[l].items)

\* The first character of a string.  Strings are atoms here: the table covers
\* the strings of more than one character that the caller passes as a stage.
FirstChar(s) == IF s = "$out" THEN "$" ELSE s

\* next(iter(stage)): a dict yields its first key, a list its first item, a
\* string its first character; nothing else is iterable
FirstOf(h, stage) ==
    IF stage.k = "ref"
    THEN LET o == h[stage.n]
         IN  IF o.items = <<>> THEN [out |-> "StopIteration", v |-> NoneV]
             ELSE IF o.k = "dict" THEN [out |-> "value", v |-> StrV(o.keys[1])]
             ELSE [out |-> "value", v |-> o.items[1]]
    ELSE IF IsStr(stage) THEN [out |-> "value", v |-> StrV(FirstChar(stage.s))]
    ELSE [out |-> "TypeError", v |-> NoneV]

\* get_stage_types(): [out, v: the list of tokens]; the first stage that cannot
\* be iterated ends the comprehension
get_stage_types(h, l) ==
    LET stages == h[l].items
        bad == {i \in DOMAIN stages : FirstOf(h, stages[i]).out # "value"}
    IN  IF bad = {}
        THEN [out |-> "value", v |-> [i \in DOMAIN stages |-> FirstOf(h, stages[i]).v]]
        ELSE [out |-> FirstOf(h, stages[CHOOSE i \in bad : \A j \in bad : i <= j]).out,
              v |-> <<>>]

\* t in s for two strings.  Strings are atoms here: the table covers the
\* strings that are part of a longer string the caller passes as a stage.
Substring(t, s) == t = s \/ t = "" \/ (s = "$out" /\ t \in {"$", "$o", "out"})

\* stage_type in stage: a key of a dict, an item of a list, a part of a
\* string; nothing else can be searched
Contains(h, stage, stage_type) ==
    IF stage.k = "ref"
    THEN LET o == h[stage.n]
         IN  IF o.k = "dict"
             THEN [out |-> "value", v |-> stage_type.s \in Range(o.keys)]
             ELSE [out |-> "value", v |-> stage_type \in Range(o.items)]
    ELSE IF IsStr(stage)
    THEN [out |-> "value", v |-> Substring(stage_type.s, stage.s)]
    ELSE [out |-> "TypeError", v |-> FALSE]

\* has_stage(stage_type): "True", "False", or the error raised; any() stops
\* at the first stage that holds the token, and at the first that cannot be
\* searched
has_stage(h, l, stage_type) ==
    LET stages == h[l].items
        found == {i \in DOMAIN stages : Contains(h, stages[i], stage_type).v}
        bad == {i \in DOMAIN stages : Contains(h, stages[i], stage_type).out # "value"}
    IN  IF ~IsStr(stage_type) THEN "TypeError"
        ELSE IF \E i \in found : \A j \in bad : i < j THEN "True"
        ELSE IF bad # {} THEN "TypeError"
        ELSE "False"

\* validate(): "True", or the error raised
\* (validate_LastOccurrence: a validate that looks at the last place of a
\* terminal token, not at the first, which is what list.index() finds)
validate_LastOccurrence(h, l) ==
    IF h[l].items = <<>> THEN "ValueError"
    ELSE LET t == get_stage_types(h, l)
             stage_types == t.v
             has_out == StrV("$out") \in Range(stage_types)
             has_merge == StrV("$merge") \in Range(stage_types)
         IN  IF t.out # "value" THEN t.out
             ELSE IF has_out /\ has_merge THEN "ValueError"
             ELSE IF \E stage_name \in {StrV("$out"), StrV("$merge")} :
                       /\ stage_name \in Range(stage_types)
                       /\ stage_types[Len(stage_types)] # stage_name
             THEN "ValueError"
             ELSE "True"

validate(h, l) ==
    IF h[l].items = <<>> THEN "ValueError"
    ELSE LET t == get_stage_types(h, l)
             stage_types == t.v
             has_out == StrV("$out") \in Range(stage_types)
             has_merge == StrV("$merge") \in Range(stage_types)
         IN  IF t.out # "value" THEN t.out
             ELSE IF has_out /\ has_merge THEN "ValueError"
             ELSE IF \E stage_name \in {StrV("$out"), StrV("$merge")} :
                       /\ stage_name \in Range(stage_types)
                       /\ IndexOf(stage_types, stage_name) - 1 # Len(stage_types) - 1
             THEN "ValueError"
             ELSE "True"

(***************************************************************************)
(* JSON text                                                               *)
(***************************************************************************)
\* json.dumps(d): the document a value is written as.  None is written as
\* null, an int as a number, a bool as true or false, a str as a string, a
\* list as an array and a dict as an object whose members keep their order.
RECURSIVE dumps(_)
dumps(d) ==
    CASE d.k = "none" -> Val("null", 0, "", <<>>, <<>>)
      [] d.k = "int" -> Val("number", d.n, "", <<>>, <<>>)
      [] d.k = "bool" -> Val("boolean", d.n, "", <<>>, <<>>)
      [] d.k = "str" -> Val("string", 0, d.s, <<>>, <<>>)
      [] d.k = "list" ->
            Val("array", 0, "", <<>>, [i \in DOMAIN d.items |-> dumps(d.items[i])])
      [] OTHER ->
            Val("object", 0, "", d.keys, [i \in DOMAIN d.items |-> dumps(d.items[i])])

\* json.loads(j): the value a document is read as
RECURSIVE loads(_)
loads(j) ==
    CASE j.k = "null" -> NoneV
      [] j.k = "number" -> IntV(j.n)
      [] j.k = "boolean" -> BoolV(j.n = 1)
      [] j.k = "string" -> StrV(j.s)
      [] j.k = "array" -> ListV([i \in DOMAIN j.items |-> loads(j.items[i])])
      [] OTHER -> DictV(j.keys, [i \in DOMAIN j.items |-> loads(j.items[i])])

\* json.dumps(a, sort_keys=True) == json.dumps(b, sort_keys=True), for the
\* documents a and b: the members of an object are compared by key, whatever
\* their order
RECURSIVE SameSorted(_, _)
SameSorted(a, b) ==
    IF a.k # b.k THEN FALSE
    ELSE IF a.k = "object"
    THEN /\ Range(a.keys) = Range(b.keys)
         /\ \A key \in Range(a.keys) : SameSorted(DictGet(a, key), DictGet(b, key))
    ELSE IF a.k = "array"
    THEN /\ Len(a.items) = Len(b.items)
         /\ \A i \in DOMAIN a.items : SameSorted(a.items[i], b.items[i])
    ELSE a = b

\* repr(builder): [out, v: the count, the tokens previewed, the ellipsis];
\* list(stage.keys())[0] fails on a stage without keys() and on an empty dict
repr(h, l) ==
    LET stages == h[l].items
        stages_count == Len(stages)
        shown == SubSeq(stages, 1, IF stages_count > 3 THEN 3 ELSE stages_count)
        bad == {i \in DOMAIN shown : ~IsDict(h, shown[i]) \/ ~Truthy(h, shown[i])}
        first == CHOOSE i \in bad : \A j \in bad : i <= j
        preview == [i \in DOMAIN shown |-> StrV(h[shown[i].n].keys[1])]
    IN  IF stages_count = 0
        THEN [out |-> "value", v |-> [stages |-> 0, preview |-> <<>>, more |-> FALSE]]
        ELSE IF bad # {}
        THEN [out |-> IF IsDict(h, shown[first]) THEN "IndexError" ELSE "AttributeError",
              v |-> NoneV]
        ELSE [out |-> "value",
              v |-> [stages |-> stages_count, preview |-> preview,
                     more |-> stages_count > 3]]

\* pretty_print(): [h, out, v: the text].  indent and ensure_ascii lay the
\* text out; the document is the same.
pretty_print(h, l) == [h |-> h, out |-> "value", v |-> dumps(Deep(h, Ref(l)))]

\* pretty_print_stage(stage): [h, out, v: the text].  The copy of the stage
\* lives for the length of the call only.
\* (pretty_print_stage_Pops: an index is served by self._stages.pop(stage))
pretty_print_stage_Pops(h, l, stage) ==
    LET n == Len(h[l].items)
    IN  IF IsInt(stage)
        THEN IF stage.n < 0 \/ stage.n >= n
             THEN [h |-> h, out |-> "IndexError", v |-> NoneV]
             ELSE [h |-> [h EXCEPT ![l].items =
                               SubSeq(@, 1, stage.n) \o SubSeq(@, stage.n + 2, n)],
                   out |-> "value",
                   v |-> dumps(Deep(h, h[l].items[stage.n + 1]))]
        ELSE IF IsDict(h, stage)
        THEN [h |-> h, out |-> "value", v |-> dumps(Deep(h, stage))]
        ELSE [h |-> h, out |-> "TypeError", v |-> NoneV]

pretty_print_stage(h, l, stage) ==
    IF IsInt(stage)
    THEN LET stage_dict == get_stage_at(h, l, stage.n)
         IN  IF stage_dict.out # "value" THEN [h |-> h, out |-> stage_dict.out, v |-> NoneV]
             ELSE [h |-> h, out |-> "value",
                   v |-> dumps(Deep(stage_dict.h, stage_dict.v))]
    ELSE IF IsDict(h, stage)
    THEN LET stage_dict == deepcopy(h, stage)
         IN  [h |-> h, out |-> "value", v |-> dumps(Deep(stage_dict.h, stage_dict.v))]
    ELSE [h |-> h, out |-> "TypeError", v |-> NoneV]

\* A builder passed as an argument: the builder whose list is l
BuilderV(l) == Val("builder", l, "", <<>>, <<>>)

\* compare_with(other, context_lines): [h, out, v: the text returned].  The
\* two lists build() returns live for the length of the call only; a diff
\* that is not empty is the text "diff".
compare_with(h, l, other, context_lines) ==
    IF other.k # "builder" THEN [h |-> h, out |-> "TypeError", v |-> NoneV]
    ELSE IF ~IsInt(context_lines) THEN [h |-> h, out |-> "TypeError", v |-> NoneV]
    ELSE IF context_lines.n < 0 THEN [h |-> h, out |-> "ValueError", v |-> NoneV]
    ELSE LET a == build(h, l)
             b == build(a.h, other.n)
             same == SameSorted(dumps(Deep(b.h, Ref(a.v))), dumps(Deep(b.h, Ref(b.v))))
         IN  [h |-> h, out |-> "value",
              v |-> IF same THEN StrV("No differences.") ELSE StrV("diff")]

\* to_json_file(filepath, metadata=metadata): [h, out, doc: the document
\* written].  The output dict lives for the length of the call only.
to_json_file(h, l, metadata) ==
    LET output == DictV(<<"pipeline">>, <<Ref(l)>>)
        full == IF Truthy(h, metadata) THEN DictSet(output, "metadata", metadata)
                ELSE output
    IN  [h |-> h, out |-> "none", doc |-> dumps(Deep(Append(h, full), Ref(Len(h) + 1)))]

(***************************************************************************)
(* The caller's arguments                                                  *)
(***************************************************************************)
EmptyDict == DictV(<<>>, <<>>)
OneField == DictV(<<"a">>, <<IntV(1)>>)
OneStage == DictV(<<"$limit">>, <<IntV(1)>>)

\* Every shape of argument each method tells apart
MappingArgs == {NoneV, IntV(5), EmptyDict, OneField}
LookupOk == <<StrV("users"), StrV("uid"), StrV("_id"), StrV("user"), NoneV>>
LookupArgs ==
    { LookupOk,
      [LookupOk EXCEPT ![5] = ListV(<<>>)],
      [LookupOk EXCEPT ![5] = ListV(<<OneStage>>)],
      [LookupOk EXCEPT ![5] = IntV(5)],
      [LookupOk EXCEPT ![5] = ListV(<<IntV(5)>>)],
      [LookupOk EXCEPT ![1] = StrV("")],
      [LookupOk EXCEPT ![1] = IntV(5)],
      [LookupOk EXCEPT ![2] = StrV("")],
      [LookupOk EXCEPT ![3] = NoneV],
      [LookupOk EXCEPT ![4] = StrV("")] }
GroupByArgs ==
    { NoneV, IntV(0), StrV("$c"), StrV(""), ListV(<<>>), EmptyDict,
      DictV(<<"_id">>, <<StrV("$c")>>), DictV(<<"c">>, <<StrV("$c")>>),
      DictV(<<"_id", "c">>, <<StrV("$b"), StrV("$c")>>) }
AccumulatorArgs ==
    { NoneV, EmptyDict, DictV(<<"n">>, <<IntV(1)>>), DictV(<<"_id">>, <<StrV("$z")>>) }
GroupArgs == {<<g, a>> : g \in GroupByArgs, a \in AccumulatorArgs}
UnwindArgs ==
    { <<StrV("tags"), BoolV(FALSE), NoneV>>,
      <<StrV("tags"), BoolV(TRUE), NoneV>>,
      <<StrV("tags"), BoolV(FALSE), StrV("i")>>,
      <<StrV("tags"), BoolV(TRUE), StrV("i")>>,
      <<StrV("tags"), BoolV(FALSE), StrV("")>>,
      <<StrV(""), BoolV(FALSE), NoneV>>,
      <<IntV(5), BoolV(FALSE), NoneV>>,
      <<NoneV, BoolV(TRUE), StrV("i")>> }
CountArgs ==
    { NoneV, StrV("1"), BoolV(TRUE), BoolV(FALSE), IntV(-1), IntV(0), IntV(2),
      ListV(<<>>), EmptyDict }
UnsetArgs ==
    { NoneV, IntV(5), StrV(""), StrV("a"), OneField, ListV(<<>>),
      ListV(<<StrV("a")>>), ListV(<<StrV("a"), StrV("b")>>),
      ListV(<<StrV("a"), IntV(5)>>), ListV(<<StrV("a"), StrV("")>>) }
ReplaceRootArgs ==
    {NoneV, IntV(5), EmptyDict, OneField, DictV(<<"newRoot">>, <<StrV("$e")>>)}
ReplaceWithArgs == {NoneV, StrV("$e"), StrV(""), OneField}
FacetArgs ==
    { NoneV, IntV(5), EmptyDict,
      DictV(<<"f">>, <<IntV(5)>>),
      DictV(<<"f">>, <<ListV(<<IntV(5)>>)>>),
      DictV(<<"f">>, <<ListV(<<>>)>>),
      DictV(<<"f">>, <<ListV(<<OneStage>>)>>) }
FieldNameArgs == {NoneV, IntV(5), StrV(""), StrV("count")}
StageArgs ==
    { NoneV, IntV(5), StrV("$out"), EmptyDict,
      DictV(<<"$out">>, <<StrV("o")>>),
      DictV(<<"$merge">>, <<DictV(<<"into">>, <<StrV("o")>>)>>),
      DictV(<<"$limit", "$out">>, <<IntV(1), StrV("o")>>) }

StageTypeArgs == {StrV("$match"), StrV("$MATCH"), StrV("$out"), IntV(5)}
PrettyStageArgs == {NoneV, IntV(0), IntV(5), BoolV(TRUE), OneStage}
ContextLinesArgs == {NoneV, IntV(-1), IntV(3)}
MetadataArgs == {NoneV, EmptyDict, DictV(<<"version">>, <<StrV("1.0")>>)}

\* The arguments of a run: all of them (every = TRUE), or for each method one
\* that is stored, one that is skipped and one that is refused
Some(every, all, few) == IF every THEN all ELSE few
MatchArgs(every) == Some(every, MappingArgs, {NoneV, EmptyDict, OneField})
AddFieldsArgs(every) == Some(every, MappingArgs, {EmptyDict, OneField})
ProjectArgs(every) == Some(every, MappingArgs, {EmptyDict, OneField})
SortArgs(every) == Some(every, MappingArgs, {IntV(5), OneField})
SetFieldArgs(every) == Some(every, MappingArgs, {EmptyDict, OneField})
LookupCalls(every) ==
    Some(every, LookupArgs,
         {LookupOk, [LookupOk EXCEPT ![5] = ListV(<<OneStage>>)],
          [LookupOk EXCEPT ![1] = StrV("")]})
GroupCalls(every) ==
    Some(every, GroupArgs,
         { <<StrV("$c"), DictV(<<"n">>, <<IntV(1)>>)>>,
           <<DictV(<<"_id">>, <<StrV("$c")>>), EmptyDict>>,
           <<EmptyDict, EmptyDict>> })
UnwindCalls(every) ==
    Some(every, UnwindArgs,
         {<<StrV("tags"), BoolV(TRUE), NoneV>>, <<StrV(""), BoolV(FALSE), NoneV>>})
LimitArgs(every) == Some(every, CountArgs, {IntV(-1), IntV(0), IntV(2)})
SkipArgs(every) == Some(every, CountArgs, {NoneV, IntV(0), IntV(2)})
UnsetCalls(every) ==
    Some(every, UnsetArgs,
         {StrV("a"), ListV(<<StrV("a"), StrV("b")>>), ListV(<<StrV("a"), IntV(5)>>)})
ReplaceRootCalls(every) ==
    Some(every, ReplaceRootArgs, {EmptyDict, DictV(<<"newRoot">>, <<StrV("$e")>>)})
ReplaceWithCalls(every) == Some(every, ReplaceWithArgs, {NoneV, OneField})
FacetCalls(every) ==
    Some(every, FacetArgs,
         {DictV(<<"f">>, <<IntV(5)>>), DictV(<<"f">>, <<ListV(<<OneStage>>)>>)})
CountCalls(every) == Some(every, FieldNameArgs, {StrV(""), StrV("count")})

(***************************************************************************)
(* Actions                                                                 *)
(***************************************************************************)
Init ==
    /\ heap = <<ListV(<<>>)>>
    /\ builders = <<1>>
    /\ arg = NoneV
    /\ res = NoneV
    /\ got = NoneV
    /\ file = NoneV
    /\ last = [op |-> "init", on |-> 1, out |-> "self"]
    /\ steps = 0

\* A run takes MaxSteps steps
Ready == steps < MaxSteps

\* A step `op` on builder x ends as `out`
Step(x, op, out) ==
    /\ steps' = steps + 1
    /\ last' = [op |-> op, on |-> x, out |-> out]

Held(v) == IF v.k = "ref" THEN v ELSE arg

\* Builder x is called with an argument the caller has just evaluated: the
\* method runs (r), and the caller keeps the argument (a) if it is an object
Call(x, op, r, a) ==
    /\ Step(x, op, r.out)
    /\ heap' = r.h
    /\ arg' = Held(a)
    /\ UNCHANGED <<builders, res, got, file>>

Run(x, op, r, a) == \E done \in {r} : Call(x, op, done, a)

DoMatch(x, t) ==
    /\ Ready
    /\ \E a \in {Alloc(heap, t)} : Run(x, "match", match(a.h, builders[x], a.v), a.v)
DoAddFields(x, t) ==
    /\ Ready
    /\ \E a \in {Alloc(heap, t)} :
           Run(x, "add_fields", add_fields(a.h, builders[x], a.v), a.v)
DoProject(x, t) ==
    /\ Ready
    /\ \E a \in {Alloc(heap, t)} : Run(x, "project", project(a.h, builders[x], a.v), a.v)
DoSort(x, t) ==
    /\ Ready
    /\ \E a \in {Alloc(heap, t)} : Run(x, "sort", sort(a.h, builders[x], a.v), a.v)
DoSetField(x, t) ==
    /\ Ready
    /\ \E a \in {Alloc(heap, t)} :
           Run(x, "set_field", set_field(a.h, builders[x], a.v), a.v)
\* the caller keeps the nested pipeline
DoLookup(x, t) ==
    /\ Ready
    /\ \E a \in {Alloc(heap, t[5])} :
           Run(x, "lookup", lookup(a.h, builders[x], [t EXCEPT ![5] = a.v]), a.v)
\* the grouping expression is evaluated first, then the accumulators, which
\* are the object the caller keeps
DoGroup(x, t) ==
    /\ Ready
    /\ \E g \in {Alloc(heap, t[1])} :
           \E a \in {Alloc(g.h, t[2])} :
               Run(x, "group", group(a.h, builders[x], <<g.v, a.v>>), a.v)
DoUnwind(x, t) ==
    /\ Ready
    /\ Run(x, "unwind", unwind(heap, builders[x], t), NoneV)
DoLimit(x, t) ==
    /\ Ready
    /\ Run(x, "limit", limit(heap, builders[x], t), NoneV)
DoSkip(x, t) ==
    /\ Ready
    /\ Run(x, "skip", skip(heap, builders[x], t), NoneV)
DoUnset(x, t) ==
    /\ Ready
    /\ \E a \in {Alloc(heap, t)} : Run(x, "unset", unset(a.h, builders[x], a.v), a.v)
DoReplaceRoot(x, t) ==
    /\ Ready
    /\ \E a \in {Alloc(heap, t)} :
           Run(x, "replace_root", replace_root(a.h, builders[x], a.v), a.v)
DoReplaceWith(x, t) ==
    /\ Ready
    /\ \E a \in {Alloc(heap, t)} :
           Run(x, "replace_with", replace_with(a.h, builders[x], a.v), a.v)
DoFacet(x, t) ==
    /\ Ready
    /\ \E a \in {Alloc(heap, t)} : Run(x, "facet", facet(a.h, builders[x], a.v), a.v)
DoCount(x, t) ==
    /\ Ready
    /\ Run(x, "count", count(heap, builders[x], t), NoneV)
DoAddStage(x, t) ==
    /\ Ready
    /\ \E a \in {Alloc(heap, t)} :
           Run(x, "add_stage", add_stage(a.h, builders[x], a.v), a.v)
DoPrepend(x, t) ==
    /\ Ready
    /\ \E a \in {Alloc(heap, t)} : Run(x, "prepend", prepend(a.h, builders[x], a.v), a.v)
DoInsertAt(x, p, t) ==
    /\ Ready
    /\ \E a \in {Alloc(heap, t)} :
           Run(x, "insert_at", insert_at(a.h, builders[x], p, a.v), a.v)
DoClear(x) ==
    /\ Ready
    /\ Run(x, "clear", clear(heap, builders[x]), NoneV)

\* c = x.copy(): one more builder
DoCopy(x) ==
    /\ Ready
    /\ Len(builders) < MaxBuilders
    /\ Step(x, "copy", "builder")
    /\ \E r \in {copy(heap, builders[x])} :
           /\ heap' = r.h
           /\ builders' = Append(builders, r.v)
    /\ UNCHANGED <<arg, res, got, file>>

\* res = x.build()
DoBuild(x) ==
    /\ Ready
    /\ Step(x, "build", "value")
    /\ \E r \in {build(heap, builders[x])} :
           /\ heap' = r.h
           /\ res' = Ref(r.v)
    /\ UNCHANGED <<builders, arg, got, file>>

\* got = x.get_stage_at(i)
DoGetStageAt(x, i) ==
    /\ Ready
    /\ \E r \in {get_stage_at(heap, builders[x], i)} :
           /\ Step(x, "get_stage_at", r.out)
           /\ heap' = r.h
           /\ got' = IF r.out = "value" THEN r.v ELSE got
           /\ UNCHANGED <<builders, arg, res, file>>

DoValidate(x) ==
    /\ Ready
    /\ Step(x, "validate", validate(heap, builders[x]))
    /\ UNCHANGED <<heap, builders, arg, res, got, file>>

DoHasStage(x, t) ==
    /\ Ready
    /\ Step(x, "has_stage", has_stage(heap, builders[x], t))
    /\ UNCHANGED <<heap, builders, arg, res, got, file>>

\* len(x), repr(x), x.get_stage_types(), x.pretty_print(): the caller drops
\* the result
DoLen(x) ==
    /\ Ready
    /\ Step(x, "len", "value")
    /\ UNCHANGED <<heap, builders, arg, res, got, file>>

DoRepr(x) ==
    /\ Ready
    /\ Step(x, "repr", repr(heap, builders[x]).out)
    /\ UNCHANGED <<heap, builders, arg, res, got, file>>

DoGetStageTypes(x) ==
    /\ Ready
    /\ Step(x, "get_stage_types", get_stage_types(heap, builders[x]).out)
    /\ UNCHANGED <<heap, builders, arg, res, got, file>>

DoPrettyPrint(x) ==
    /\ Ready
    /\ \E r \in {pretty_print(heap, builders[x])} :
           /\ Step(x, "pretty_print", r.out)
           /\ heap' = r.h
    /\ UNCHANGED <<builders, arg, res, got, file>>

\* x.pretty_print_stage(t): the caller keeps a stage dict it passed
DoPrettyPrintStage(x, t) ==
    /\ Ready
    /\ \E a \in {Alloc(heap, t)} :
           \E r \in {pretty_print_stage(a.h, builders[x], a.v)} :
               /\ Step(x, "pretty_print_stage", r.out)
               /\ heap' = r.h
               /\ arg' = Held(a.v)
    /\ UNCHANGED <<builders, res, got, file>>

\* x.compare_with(o, c), where o is a builder or None
DoCompareWith(x, o, c) ==
    /\ Ready
    /\ \E r \in {compare_with(heap, builders[x], o, c)} :
           /\ Step(x, "compare_with", r.out)
           /\ heap' = r.h
    /\ UNCHANGED <<builders, arg, res, got, file>>

\* x.to_json_file(path, metadata=t): the file holds what was written
DoToJsonFile(x, t) ==
    /\ Ready
    /\ \E a \in {Alloc(heap, t)} :
           \E r \in {to_json_file(a.h, builders[x], a.v)} :
               /\ Step(x, "to_json_file", r.out)
               /\ heap' = r.h
               /\ arg' = Held(a.v)
               /\ file' = r.doc
               /\ UNCHANGED <<builders, res, got>>

(***************************************************************************)
(* The caller changes an object it holds                                   *)
(***************************************************************************)
\* d["x"] = 1 on a dict; append(1), pop() or reverse() on a list
Mutate(h, id, how) ==
    LET o == h[id]
        n == Len(o.items)
    IN  CASE how = "set" -> [h EXCEPT ![id] = DictSet(o, "x", IntV(1))]
          [] how = "append" -> [h EXCEPT ![id].items = Append(@, IntV(1))]
          [] how = "pop" -> [h EXCEPT ![id].items = SubSeq(@, 1, n - 1)]
          [] OTHER -> [h EXCEPT ![id].items = [i \in 1..n |-> o.items[n + 1 - i]]]

Ways(h, id) ==
    IF h[id].k = "dict" THEN {"set"}
    ELSE IF h[id].items = <<>> THEN {"append"}
    ELSE {"append", "pop", "reverse"}

Changed(op, h) ==
    /\ Step(1, op, "none")
    /\ heap' = h
    /\ UNCHANGED <<builders, arg, res, got, file>>

\* the list build() returned
MutateResult(how) ==
    /\ Ready
    /\ res # NoneV
    /\ how \in Ways(heap, res.n)
    /\ Changed("mutate_result", Mutate(heap, res.n, how))

\* a stage of the list build() returned, or an object under it
MutateResultStage(id, how) ==
    /\ Ready
    /\ id \in Reach(heap, res) \ {res.n}
    /\ how \in Ways(heap, id)
    /\ Changed("mutate_result_stage", Mutate(heap, id, how))

\* the stage get_stage_at() returned, or an object under it
MutateGot(id, how) ==
    /\ Ready
    /\ id \in Reach(heap, got)
    /\ how \in Ways(heap, id)
    /\ Changed("mutate_got", Mutate(heap, id, how))

\* the argument of an earlier call, or an object under it
MutateArg(id, how) ==
    /\ Ready
    /\ id \in Reach(heap, arg)
    /\ how \in Ways(heap, id)
    /\ Changed("mutate_arg", Mutate(heap, id, how))

Hows == {"set", "append", "pop", "reverse"}

Caller ==
    \/ \E how \in Hows : MutateResult(how)
    \/ \E id \in DOMAIN heap : \E how \in Hows : MutateResultStage(id, how)
    \/ \E id \in DOMAIN heap : \E how \in Hows : MutateGot(id, how)
    \/ \E id \in DOMAIN heap : \E how \in Hows : MutateArg(id, how)

Constructor(every) ==
    \/ \E x \in DOMAIN builders : \E t \in MatchArgs(every) : DoMatch(x, t)
    \/ \E x \in DOMAIN builders : \E t \in LookupCalls(every) : DoLookup(x, t)
    \/ \E x \in DOMAIN builders : \E t \in AddFieldsArgs(every) : DoAddFields(x, t)
    \/ \E x \in DOMAIN builders : \E t \in ProjectArgs(every) : DoProject(x, t)
    \/ \E x \in DOMAIN builders : \E t \in GroupCalls(every) : DoGroup(x, t)
    \/ \E x \in DOMAIN builders : \E t \in UnwindCalls(every) : DoUnwind(x, t)
    \/ \E x \in DOMAIN builders : \E t \in SortArgs(every) : DoSort(x, t)
    \/ \E x \in DOMAIN builders : \E t \in LimitArgs(every) : DoLimit(x, t)
    \/ \E x \in DOMAIN builders : \E t \in SkipArgs(every) : DoSkip(x, t)
    \/ \E x \in DOMAIN builders : \E t \in UnsetCalls(every) : DoUnset(x, t)
    \/ \E x \in DOMAIN builders : \E t \in ReplaceRootCalls(every) : DoReplaceRoot(x, t)
    \/ \E x \in DOMAIN builders : \E t \in ReplaceWithCalls(every) : DoReplaceWith(x, t)
    \/ \E x \in DOMAIN builders : \E t \in FacetCalls(every) : DoFacet(x, t)
    \/ \E x \in DOMAIN builders : \E t \in CountCalls(every) : DoCount(x, t)
    \/ \E x \in DOMAIN builders : \E t \in SetFieldArgs(every) : DoSetField(x, t)

Positions(x) == -1..(len(heap, builders[x]) + 1)

Edit ==
    \/ \E x \in DOMAIN builders : \E t \in StageArgs : DoAddStage(x, t)
    \/ \E x \in DOMAIN builders : \E t \in StageArgs : DoPrepend(x, t)
    \/ \E x \in DOMAIN builders : \E t \in StageArgs : \E p \in Positions(x) :
           DoInsertAt(x, p, t)
    \/ \E x \in DOMAIN builders : DoClear(x)

\* What compare_with is called with: a builder of the run, or None
Others == {BuilderV(builders[y]) : y \in DOMAIN builders} \cup {NoneV}

Read ==
    \/ \E x \in DOMAIN builders : DoBuild(x)
    \/ \E x \in DOMAIN builders : \E i \in -1..len(heap, builders[x]) : DoGetStageAt(x, i)
    \/ \E x \in DOMAIN builders : DoValidate(x)
    \/ \E x \in DOMAIN builders : \E t \in StageTypeArgs : DoHasStage(x, t)
    \/ \E x \in DOMAIN builders : \E t \in MetadataArgs : DoToJsonFile(x, t)
    \/ \E x \in DOMAIN builders : DoLen(x)
    \/ \E x \in DOMAIN builders : DoRepr(x)
    \/ \E x \in DOMAIN builders : DoGetStageTypes(x)
    \/ \E x \in DOMAIN builders : DoPrettyPrint(x)
    \/ \E x \in DOMAIN builders : \E t \in PrettyStageArgs : DoPrettyPrintStage(x, t)
    \/ \E x \in DOMAIN builders : \E o \in Others : \E c \in ContextLinesArgs :
           DoCompareWith(x, o, c)

\* The builders and their caller, with a few arguments for each constructor
Next ==
    \/ Constructor(FALSE)
    \/ Edit
    \/ \E x \in DOMAIN builders : DoCopy(x)
    \/ Read
    \/ Caller

Spec == Init /\ [][Next]_vars

\* One builder, called with every argument
NextCalls ==
    \/ Constructor(TRUE)
    \/ Edit
    \/ \E x \in DOMAIN builders : DoValidate(x)

SpecCalls == Init /\ [][NextCalls]_vars

\* The typed stage constructors, called with every argument, with clear()
\* and copy()
NextTyped ==
    \/ Constructor(TRUE)
    \/ \E x \in DOMAIN builders : DoClear(x)
    \/ \E x \in DOMAIN builders : DoCopy(x)

SpecTyped == Init /\ [][NextTyped]_vars

\* The calls of the shipped examples (examples.py: example_with_insert_at,
\* example_insert_before_stage_type) and of the insert_at docstring
ExampleMatch == DictV(<<"status">>, <<StrV("active")>>)
ExampleGroupBy == DictV(<<"_id">>, <<StrV("$category")>>)
ExampleAccumulators == DictV(<<"count">>, <<DictV(<<"$sum">>, <<IntV(1)>>)>>)
ExampleGroups ==
    { <<ExampleGroupBy, ExampleAccumulators>>, <<ExampleGroupBy, EmptyDict>>,
      <<StrV("$category"), ExampleAccumulators>> }
ExampleLookup == <<StrV("users"), StrV("userId"), StrV("_id"), StrV("user"), NoneV>>
ExampleSort == DictV(<<"$sort">>, <<DictV(<<"name">>, <<IntV(1)>>)>>)

NextExamples ==
    \/ \E x \in DOMAIN builders : DoMatch(x, ExampleMatch)
    \/ \E x \in DOMAIN builders : DoLookup(x, ExampleLookup)
    \/ \E x \in DOMAIN builders : \E t \in ExampleGroups : DoGroup(x, t)
    \/ \E x \in DOMAIN builders : \E p \in Positions(x) : DoInsertAt(x, p, ExampleSort)
    \/ \E x \in DOMAIN builders : DoBuild(x)

SpecExamples == Init /\ [][NextExamples]_vars

(***************************************************************************)
(* What the claims speak of                                                *)
(***************************************************************************)
\* The stages builder x holds, by identity, and what they denote (what two
\* build() results are compared by)
Stages(x) == heap[builders[x]].items
View(x) == Deep(heap, Ref(builders[x]))
Untouched(x) == Stages(x)' = Stages(x) /\ View(x)' = View(x)

ConstructorOps ==
    { "match", "lookup", "add_fields", "project", "group", "unwind", "sort", "limit",
      "skip", "unset", "replace_root", "replace_with", "facet", "count", "set_field" }
EditOps == {"add_stage", "prepend", "insert_at", "clear"}

\* The token of stage i of builder x
Token(x, i) == FirstOf(heap, Stages(x)[i]).v
Terminal == {StrV("$out"), StrV("$merge")}

\* C1: validate() returns True exactly when the sequence is non-empty, does
\* not hold both a $out and a $merge token, and holds a $out or $merge token
\* only at the last index; in every other state it raises ValueError.
C1_ValidateIff ==
    \A x \in DOMAIN builders :
        LET n == Len(Stages(x))
            ok == /\ n > 0
                  /\ ~ /\ \E i \in 1..n : Token(x, i) = StrV("$out")
                       /\ \E i \in 1..n : Token(x, i) = StrV("$merge")
                  /\ \A i \in 1..n : Token(x, i) \in Terminal => i = n
        IN  validate(heap, builders[x]) = IF ok THEN "True" ELSE "ValueError"

\* C2: every element of a builder's sequence is a mapping with exactly one
\* top-level key.
C2_OneKeyStages ==
    \A x \in DOMAIN builders :
        \A i \in DOMAIN Stages(x) :
            IsDict(heap, Stages(x)[i]) /\ Len(heap[Stages(x)[i].n].keys) = 1

\* C3: a constructor or editing call that raises leaves the sequence of its
\* builder (and of every other builder) as it was: same length, same
\* elements, same order.
C3_FailedCallChangesNothing ==
    [][(last'.op \in ConstructorOps \cup {"prepend", "insert_at"} /\ last'.out \in Errors)
         => \A x \in DOMAIN builders : Untouched(x)]_vars

C3_Witness ==
    /\ last.op \in {"unset", "lookup", "insert_at"}
    /\ last.out \in Errors
    /\ Len(Stages(1)) > 0

\* C4: build() returns a new list, equal to the sequence and to the list an
\* earlier build() returned if that one still equals the sequence; appending
\* to, removing from or reordering the returned list leaves every builder's
\* length, stage types and contents as they were.
C4_BuildReturnsNewList ==
    [][/\ last'.op = "mutate_result" =>
            \A x \in DOMAIN builders :
                /\ Untouched(x)
                /\ get_stage_types(heap', builders'[x]) = get_stage_types(heap, builders[x])
       /\ last'.op = "build" =>
            /\ res'.n \notin Range(builders')
            /\ res' # res
            /\ Deep(heap', res') = View(last'.on)
            /\ (res # NoneV /\ Deep(heap, res) = View(last'.on))
                   => Deep(heap', res') = Deep(heap', res)
            /\ \A x \in DOMAIN builders : Untouched(x)]_vars

C4_Witness ==
    /\ last.op = "mutate_result"
    /\ Len(Stages(1)) > 0
    /\ Deep(heap, res) # View(1)

\* C5: mutating a stage inside the list build() returned, or a payload nested
\* in it, changes no builder's contents.
C5_BuildReturnsDeepCopy ==
    [][last'.op = "mutate_result_stage" => \A x \in DOMAIN builders : View(x)' = View(x)]_vars

\* C6: get_stage_at(i), 0 <= i < len, returns a value equal to stage i, and
\* mutating the returned value at any depth changes no builder's contents.
C6_GetStageAtReturnsDeepCopy ==
    [][/\ \A x \in DOMAIN builders : \A i \in 0..(Len(Stages(x)) - 1) :
            DoGetStageAt(x, i) =>
                /\ last'.out = "value"
                /\ Deep(heap', got') = Deep(heap, Stages(x)[i + 1])
                /\ \A y \in DOMAIN builders : Untouched(y)
       /\ last'.op = "mutate_got" => \A x \in DOMAIN builders : Untouched(x)]_vars

C6_Witness ==
    /\ last.op = "mutate_got"
    /\ got.k = "ref"
    /\ \E x \in DOMAIN builders : \E i \in DOMAIN Stages(x) :
           /\ Stages(x)[i].k = "ref"
           /\ heap[Stages(x)[i].n].keys = <<"$match">>
           /\ DictSet(Deep(heap, Stages(x)[i]), "x", IntV(1)) = Deep(heap, got)

\* C7: copy() makes another builder with its own list and equal contents;
\* from then on a constructor or editing call on one builder leaves the
\* contents of the other as they were.
C7_CopyIsIndependent ==
    [][/\ last'.op = "copy" =>
            /\ Len(builders') = Len(builders) + 1
            /\ builders'[Len(builders')] \notin Range(builders)
            /\ Deep(heap', Ref(builders'[Len(builders')])) = View(last'.on)
            /\ \A x \in DOMAIN builders : Untouched(x)
       /\ last'.op \in ConstructorOps \cup EditOps =>
            \A y \in DOMAIN builders \ {last'.on} : Untouched(y)]_vars

C7_Witness ==
    /\ Len(builders) = 2
    /\ last.op \in ConstructorOps \cup EditOps
    /\ last.out = "self"
    /\ Len(Stages(1)) > 0
    /\ View(1) # View(2)

\* C8: after a call has stored a stage built from a mapping or list of the
\* caller, the caller's mutating that object changes no builder's contents.
C8_NoSharingWithCaller ==
    [][last'.op = "mutate_arg" => \A x \in DOMAIN builders : View(x)' = View(x)]_vars

C10_GroupPayload ==
    [][\A x \in DOMAIN builders : \A t \in GroupArgs :
         (DoGroup(x, t) /\ last'.out = "self") =>
             LET after == heap'[builders'[x]].items
                 stage == Deep(heap', after[Len(after)])
                 P == stage.items[1]
             IN  /\ Len(after) = Len(Stages(x)) + 1
                 /\ stage.keys = <<"$group">>
                 /\ DictGet(P, "_id") = t[1]
                 /\ \A k \in Range(t[2].keys) : DictGet(P, k) = DictGet(t[2], k)]_vars

\* The stage a call has just appended to builder x, as a structure
Appended(x) ==
    LET after == heap'[builders'[x]].items
    IN  Deep(heap', after[Len(after)])
\* Builder x holds one stage more than before, after the stages it held
Extended(x) ==
    LET after == heap'[builders'[x]].items
    IN  /\ Len(after) = Len(Stages(x)) + 1
        /\ SubSeq(after, 1, Len(Stages(x))) = Stages(x)
        /\ Deep(heap', Ref(builders'[x])).items
             = View(x).items \o <<Appended(x)>>

OnlyIdKey(g) == g.k = "dict" /\ Range(g.keys) = {"_id"}
Degenerate(t) == t[1] \in {StrV(""), EmptyDict} /\ t[2] = EmptyDict

C13_InsertAtSplices ==
    [][\A x \in DOMAIN builders : \A t \in StageArgs : \A p \in 0..Len(Stages(x)) :
         (last'.op = "insert_at" /\ t.k = "dict" /\ DoInsertAt(x, p, t)) =>
             LET S == Stages(x)
                 n == Len(S)
                 after == heap'[builders'[x]].items
                 a == Alloc(heap, t)
             IN  /\ last'.out = "self"
                 /\ t = EmptyDict => Untouched(x)
                 /\ t # EmptyDict =>
                      /\ after = SubSeq(S, 1, p) \o <<a.v>> \o SubSeq(S, p + 1, n)
                      /\ Deep(heap', Ref(builders'[x])).items
                           = SubSeq(View(x).items, 1, p) \o <<t>>
                               \o SubSeq(View(x).items, p + 1, n)
                 /\ p = n => heap' = add_stage(a.h, builders[x], a.v).h
                 /\ p = 0 => heap' = prepend(a.h, builders[x], a.v).h]_vars

C13_Witness ==
    /\ last.op = "insert_at"
    /\ last.out = "self"
    /\ Len(Stages(last.on)) = 3
    /\ Stages(last.on)[2] = arg

\* C14: get_stage_at(i) raises IndexError exactly when i < 0 or
\* i >= len(builder) (a negative index does not count from the end, index 0
\* of an empty builder fails), and the call leaves every sequence as it was.
C14_GetStageAtRange ==
    [][\A x \in DOMAIN builders : \A i \in -1..Len(Stages(x)) :
         (last'.op = "get_stage_at" /\ DoGetStageAt(x, i)) =>
             /\ last'.out = "IndexError" <=> (i < 0 \/ i >= Len(Stages(x)))
             /\ last'.out \in {"IndexError", "value"}
             /\ \A y \in DOMAIN builders : Untouched(y)]_vars

C14_Witness ==
    /\ last.op = "get_stage_at"
    /\ last.out = "IndexError"
    /\ Len(Stages(last.on)) > 0

\* C15: for a string t, has_stage(t) is True exactly when t is an element of
\* get_stage_types() (and False otherwise); for a t that is no string it
\* raises TypeError.
C15_HasStageIffListed ==
    \A x \in DOMAIN builders : \A t \in StageTypeArgs :
        has_stage(heap, builders[x], t) =
            IF ~IsStr(t) THEN "TypeError"
            ELSE IF t \in Range(get_stage_types(heap, builders[x]).v) THEN "True"
            ELSE "False"

ListOfDicts(p) == p.k = "list" /\ \A i \in DOMAIN p.items : p.items[i].k = "dict"
NonEmptyStr(v) == v.k = "str" /\ v.s # ""

\* C16: lookup with four non-empty strings and a nested pipeline p that is a
\* list of mappings (the empty list included) appends one stage
\* {"$lookup": L} with L's from, localField, foreignField and as the four
\* arguments and L["pipeline"] = p; with no nested pipeline (null) L has
\* exactly the four keys.
C16_LookupPayload ==
    [][\A x \in DOMAIN builders : \A t \in LookupArgs :
         ( /\ last'.op = "lookup"
           /\ \A i \in 1..4 : NonEmptyStr(t[i])
           /\ t[5] = NoneV \/ ListOfDicts(t[5])
           /\ DoLookup(x, t) ) =>
             /\ last'.out = "self"
             /\ Extended(x)
             /\ Appended(x).keys = <<"$lookup">>
             /\ LET L == Appended(x).items[1]
                IN  /\ SubSeq(L.keys, 1, 4) = <<"from", "localField", "foreignField", "as">>
                    /\ SubSeq(L.items, 1, 4) = SubSeq(t, 1, 4)
                    /\ IF t[5] = NoneV THEN Len(L.keys) = 4
                       ELSE /\ L.keys = <<"from", "localField", "foreignField", "as", "pipeline">>
                            /\ L.items[5] = t[5]]_vars

\* The kind of argument each constructor asks for
WrongKind(op, t) ==
    CASE op \in {"match", "add_fields", "project", "sort", "set_field", "replace_root"} ->
             t.k # "dict"
      [] op = "lookup" ->
             \/ \E i \in 1..4 : t[i].k # "str"
             \/ t[5] # NoneV /\ ~ListOfDicts(t[5])
      [] op = "group" -> t[2].k # "dict"
      [] op = "unwind" -> t[1].k # "str"
      [] op \in {"limit", "skip"} -> t.k # "int"
      [] op = "unset" ->
             /\ t.k # "str"
             /\ ~(t.k = "list" /\ \A i \in DOMAIN t.items : t.items[i].k = "str")
      [] op = "replace_with" -> t = NoneV
      [] op = "facet" ->
             \/ t.k # "dict"
             \/ \E i \in DOMAIN t.items : ~ListOfDicts(t.items[i])
      [] op = "count" -> t.k # "str"

\* The call op(t) on builder x has just been made, and ended as the claim
\* says: with TypeError if t is of the wrong kind, and not so otherwise
KindChecked(op, t) ==
    IF WrongKind(op, t) THEN last'.out = "TypeError" ELSE last'.out # "TypeError"

\* C17: a constructor call whose argument is of the wrong kind (no string
\* where one is asked for, null where it is not allowed, no mapping, no
\* integer) raises TypeError; ValueError is raised only for an argument of
\* the right kind.
C17_WrongKindIsTypeError ==
    [][\A x \in DOMAIN builders :
         /\ last'.op = "match" => \A t \in MappingArgs : DoMatch(x, t) => KindChecked("match", t)
         /\ last'.op = "add_fields" =>
                \A t \in MappingArgs : DoAddFields(x, t) => KindChecked("add_fields", t)
         /\ last'.op = "project" =>
                \A t \in MappingArgs : DoProject(x, t) => KindChecked("project", t)
         /\ last'.op = "sort" => \A t \in MappingArgs : DoSort(x, t) => KindChecked("sort", t)
         /\ last'.op = "set_field" =>
                \A t \in MappingArgs : DoSetField(x, t) => KindChecked("set_field", t)
         /\ last'.op = "replace_root" =>
                \A t \in ReplaceRootArgs : DoReplaceRoot(x, t) => KindChecked("replace_root", t)
         /\ last'.op = "lookup" =>
                \A t \in LookupArgs : DoLookup(x, t) => KindChecked("lookup", t)
         /\ last'.op = "group" => \A t \in GroupArgs : DoGroup(x, t) => KindChecked("group", t)
         /\ last'.op = "unwind" =>
                \A t \in UnwindArgs : DoUnwind(x, t) => KindChecked("unwind", t)
         /\ last'.op = "limit" => \A t \in CountArgs : DoLimit(x, t) => KindChecked("limit", t)
         /\ last'.op = "skip" => \A t \in CountArgs : DoSkip(x, t) => KindChecked("skip", t)
         /\ last'.op = "unset" => \A t \in UnsetArgs : DoUnset(x, t) => KindChecked("unset", t)
         /\ last'.op = "replace_with" =>
                \A t \in ReplaceWithArgs : DoReplaceWith(x, t) => KindChecked("replace_with", t)
         /\ last'.op = "facet" => \A t \in FacetArgs : DoFacet(x, t) => KindChecked("facet", t)
         /\ last'.op = "count" =>
                \A t \in FieldNameArgs : DoCount(x, t) => KindChecked("count", t)]_vars

\* The call with argument t and this token appended {token: t}, was a no-op,
\* or raised, as the claim says of t
CountChecked(x, token, t) ==
    IF t.k = "int" /\ t.n > 0
    THEN last'.out = "self" /\ Extended(x) /\ Appended(x) = DictV(<<token>>, <<t>>)
    ELSE /\ Untouched(x)
         /\ last'.out = IF t.k # "int" THEN "TypeError"
                        ELSE IF t.n < 0 THEN "ValueError" ELSE "self"

\* C18: limit(n) appends {"$limit": n} exactly when n is an integer > 0, is a
\* no-op exactly when n is the integer 0, raises ValueError for a negative
\* integer and TypeError for every n that is no integer (null, boolean,
\* string, list, mapping); likewise skip(n) and {"$skip": n}.
C18_LimitSkipCases ==
    [][\A x \in DOMAIN builders : \A t \in CountArgs :
         /\ (last'.op = "limit" /\ DoLimit(x, t)) => CountChecked(x, "$limit", t)
         /\ (last'.op = "skip" /\ DoSkip(x, t)) => CountChecked(x, "$skip", t)]_vars

\* C19: unset(s) with s a non-empty string appends {"$unset": s}; unset([s])
\* with one non-empty string appends the same {"$unset": s}; unset of a list
\* of two or more non-empty strings appends {"$unset": that list}; every
\* other argument (null, "", [], a list holding a non-string or "", any
\* other kind) makes it raise and append nothing; it is never omitted.
C19_UnsetNormalises ==
    [][\A x \in DOMAIN builders : \A t \in UnsetArgs :
         (last'.op = "unset" /\ DoUnset(x, t)) =>
             LET names == t.k = "list" /\ t.items # <<>>
                              /\ \A i \in DOMAIN t.items : NonEmptyStr(t.items[i])
             IN  IF NonEmptyStr(t) \/ names
                 THEN /\ last'.out = "self"
                      /\ Extended(x)
                      /\ Appended(x) =
                           DictV(<<"$unset">>,
                                 <<IF t.k = "list" /\ Len(t.items) = 1 THEN t.items[1] ELSE t>>)
                 ELSE last'.out \in Errors /\ Untouched(x)]_vars

C19_Witness ==
    /\ last.op = "unset"
    /\ last.out = "self"
    /\ arg.k = "ref"
    /\ heap[arg.n].k = "list"
    /\ Len(heap[arg.n].items) = 1
    /\ Len(Stages(1)) > 1
    /\ Deep(heap, Stages(1)[Len(Stages(1))]) = DictV(<<"$unset">>, <<heap[arg.n].items[1]>>)

\* The token of the stage each constructor appends
TokenOf(op) ==
    CASE op = "match" -> "$match"
      [] op = "lookup" -> "$lookup"
      [] op = "add_fields" -> "$addFields"
      [] op = "project" -> "$project"
      [] op = "group" -> "$group"
      [] op = "unwind" -> "$unwind"
      [] op = "sort" -> "$sort"
      [] op = "limit" -> "$limit"
      [] op = "skip" -> "$skip"
      [] op = "unset" -> "$unset"
      [] op = "replace_root" -> "$replaceRoot"
      [] op = "replace_with" -> "$replaceWith"
      [] op = "facet" -> "$facet"
      [] op = "count" -> "$count"
      [] op = "set_field" -> "$set"

\* C20: every stage-constructor call either leaves the sequence of its
\* builder as it was (it raised, or was omitted) or returns the builder
\* having put its own one-key descriptor at the end, after all the stages
\* held before, which stay in place; so a builder that started empty holds
\* the descriptors of the calls that took effect, in call order.
C20_ConstructorsAppendInOrder ==
    [][\A x \in DOMAIN builders : (last'.op \in ConstructorOps /\ last'.on = x) =>
             /\ last'.out \in Errors => Untouched(x)
             /\ last'.out \in Errors \cup {"self"}
             /\ \/ Untouched(x)
                \/ /\ last'.out = "self"
                   /\ Extended(x)
                   /\ Appended(x).k = "dict"
                   /\ Appended(x).keys = <<TokenOf(last'.op)>>]_vars

C20_Witness ==
    /\ last.op = "limit"
    /\ last.out = "self"
    /\ Len(Stages(1)) = 3
    /\ get_stage_types(heap, builders[1]).v = <<StrV("$match"), StrV("$group"), StrV("$limit")>>

\* C21: a constructor or editing call that returns (a call omitted as a
\* no-op and clear() included) returns the builder it was made on, which
\* keeps its list, so the next call of a chain acts on the same sequence;
\* copy() alone returns another builder.
C21_ReturnsSelf ==
    [][/\ last'.op \in ConstructorOps \cup EditOps =>
            /\ last'.out \in Errors \cup {"self"}
            /\ builders' = builders
       /\ last'.op = "copy" =>
            /\ last'.out = "builder"
            /\ Len(builders') = Len(builders) + 1
            /\ builders'[Len(builders')] \notin Range(builders)
            /\ SubSeq(builders', 1, Len(builders)) = builders
       /\ (last'.out = "builder" \/ builders' # builders) => last'.op = "copy"]_vars

C21_Witness ==
    /\ last.op = "clear"
    /\ last.out = "self"
    /\ steps = 3
    /\ Len(builders) = 2
    /\ Stages(last.on) = <<>>
    /\ \E y \in DOMAIN builders : Stages(y) # <<>>

\* The tokens of builder x after the step
TokensAfter(x) == get_stage_types(heap', builders'[x]).v

\* C22: on a new builder, match({"status": "active"}), then
\* group({"_id": "$category"}, {"count": {"$sum": 1}}), then
\* insert_at(1, {"$sort": {"name": 1}}), then build() all return without
\* raising, and the builder holds the tokens $match, $sort, $group.
C22_ExampleChainCompletes ==
    [][/\ (steps = 0 /\ DoMatch(1, ExampleMatch)) =>
            last'.out = "self" /\ TokensAfter(1) = <<StrV("$match")>>
       /\ ( /\ steps = 1
            /\ get_stage_types(heap, builders[1]).v = <<StrV("$match")>>
            /\ DoGroup(1, <<ExampleGroupBy, ExampleAccumulators>>) ) =>
            last'.out = "self" /\ TokensAfter(1) = <<StrV("$match"), StrV("$group")>>
       /\ ( /\ steps = 2
            /\ get_stage_types(heap, builders[1]).v = <<StrV("$match"), StrV("$group")>>
            /\ DoInsertAt(1, 1, ExampleSort) ) =>
            /\ last'.out = "self"
            /\ TokensAfter(1) = <<StrV("$match"), StrV("$sort"), StrV("$group")>>
       /\ DoBuild(1) => last'.out = "value" /\ Deep(heap', res') = View(1)]_vars
\* What reading the file back yields
Document == loads(file)
HasField(d, key) == key \in Range(d.keys)

\* C23: after to_json_file(path, metadata=m) the file read back has a
\* "pipeline" field equal to what build() returns, a "metadata" field equal
\* to m exactly when m is a mapping (the empty one included) and none when m
\* is None, and the builder's sequence is as it was.
C23_FileRoundTrip ==
    [][\A x \in DOMAIN builders : \A m \in MetadataArgs :
           (last'.op = "to_json_file" /\ DoToJsonFile(x, m))
           => /\ HasField(Document', "pipeline")
              /\ DictGet(Document', "pipeline") = View(x)
              /\ HasField(Document', "metadata") <=> m.k = "dict"
              /\ m.k = "dict" => DictGet(Document', "metadata") = m
              /\ Untouched(x)]_vars

\* C24: insert_at(p, s) with s a mapping (the empty one included) and p < 0
\* or p > len(builder) raises IndexError and leaves the sequence as it was;
\* only a position inside [0, len] returns normally.
C24_OutOfRangeRaises ==
    [][\A x \in DOMAIN builders : \A t \in StageArgs : \A p \in Positions(x) :
         (last'.op = "insert_at" /\ t.k = "dict" /\ DoInsertAt(x, p, t)) =>
             /\ (p < 0 \/ p > Len(Stages(x)))
                  => (last'.out = "IndexError" /\ Untouched(x))
             /\ last'.out = "self" => (0 <= p /\ p <= Len(Stages(x)))]_vars

\* C25: unwind(path, preserve, index_field) with a non-empty string path
\* appends exactly one stage {"$unwind": U} where U["path"] is the path, U
\* has "preserveNullAndEmptyArrays" (true) exactly when preserve is true, has
\* "includeArrayIndex" (the given name) exactly when index_field is a
\* non-empty string, and has no other key; a path that is not a string raises
\* TypeError and an empty path ValueError, and neither appends.
C25_UnwindPayload ==
    [][\A x \in DOMAIN builders : \A t \in UnwindArgs :
         (last'.op = "unwind" /\ DoUnwind(x, t)) =>
             IF NonEmptyStr(t[1])
             THEN /\ last'.out = "self"
                  /\ Extended(x)
                  /\ Appended(x).k = "dict"
                  /\ Appended(x).keys = <<"$unwind">>
                  /\ LET U == Appended(x).items[1]
                     IN  /\ U.k = "dict"
                         /\ HasField(U, "path") /\ DictGet(U, "path") = t[1]
                         /\ HasField(U, "preserveNullAndEmptyArrays") <=> t[2] = BoolV(TRUE)
                         /\ HasField(U, "preserveNullAndEmptyArrays")
                              => DictGet(U, "preserveNullAndEmptyArrays") = BoolV(TRUE)
                         /\ HasField(U, "includeArrayIndex") <=> NonEmptyStr(t[3])
                         /\ HasField(U, "includeArrayIndex")
                              => DictGet(U, "includeArrayIndex") = t[3]
                         /\ Range(U.keys) \subseteq
                              {"path", "preserveNullAndEmptyArrays", "includeArrayIndex"}
                         /\ Cardinality(Range(U.keys)) = Len(U.keys)
             ELSE /\ last'.out = (IF IsStr(t[1]) THEN "ValueError" ELSE "TypeError")
                  /\ Untouched(x)]_vars

C25_Witness ==
    /\ last.op = "unwind"
    /\ last.out = "self"
    /\ Len(Stages(1)) = 2
    /\ Deep(heap, Stages(1)[2])
         = DictV(<<"$unwind">>,
                 <<DictV(<<"path", "preserveNullAndEmptyArrays", "includeArrayIndex">>,
                         <<StrV("tags"), BoolV(TRUE), StrV("i")>>)>>)

\* C26: in every reachable state get_stage_types() returns, without raising,
\* a list of len(builder) tokens, one per stage in order, and validate()
\* returns True or raises ValueError, never another kind of error.
C26_IntrospectionTotal ==
    \A x \in DOMAIN builders :
        LET t == get_stage_types(heap, builders[x])
        IN  /\ t.out = "value"
            /\ Len(t.v) = len(heap, builders[x])
            /\ \A i \in DOMAIN t.v : t.v[i] = Token(x, i)
            /\ validate(heap, builders[x]) \in {"True", "ValueError"}

ReadOps ==
    { "len", "repr", "build", "get_stage_at", "get_stage_types", "has_stage", "validate",
      "pretty_print", "pretty_print_stage", "compare_with", "to_json_file" }

\* C27: len, repr, build, get_stage_at, get_stage_types, has_stage, validate,
\* pretty_print, pretty_print_stage, compare_with and to_json_file leave the
\* sequence of every builder (the one called and, for compare_with, the
\* other) as it was, whether they return or raise.
C27_ReadOpsChangeNothing ==
    [][last'.op \in ReadOps =>
           /\ builders' = builders
           /\ \A x \in DOMAIN builders : Untouched(x)]_vars

C27_Witness ==
    /\ last.op = "pretty_print_stage"
    /\ last.out = "value"
    /\ arg = NoneV
    /\ Len(builders) = 2
    /\ Len(Stages(last.on)) = 1

\* Builder x holds after the step the stages it held before, unchanged and
\* in the same order, and at most one more, at some place among them
KeptInOrder(x) ==
    LET S == Stages(x)
        n == Len(S)
        after == heap'[builders'[x]].items
    IN  /\ [i \in DOMAIN S |-> Deep(heap', S[i])] = View(x).items
        /\ \/ after = S
           \/ /\ Len(after) = n + 1
              /\ \E p \in 0..n :
                     /\ SubSeq(after, 1, p) = SubSeq(S, 1, p)
                     /\ SubSeq(after, p + 2, n + 1) = SubSeq(S, p + 1, n)

\* C28: a constructor, add_stage, prepend or insert_at call changes the
\* length by 0 or by +1 and keeps every stage held before, in the same
\* relative order (none is removed, replaced or moved), so the length never
\* decreases without a clear(); clear() leaves length 0.
C28_OnlyClearRemoves ==
    [][\A x \in DOMAIN builders : last'.on = x =>
           /\ last'.op \in ConstructorOps \cup {"add_stage", "prepend", "insert_at"}
                => KeptInOrder(x)
           /\ last'.op = "clear" => heap'[builders'[x]].items = <<>>
           /\ Len(heap'[builders'[x]].items) < Len(Stages(x)) => last'.op = "clear"]_vars

C28_Witness ==
    /\ last.op = "prepend"
    /\ last.out = "self"
    /\ Len(Stages(1)) = 3
    /\ Stages(1)[1] = arg

AddOps == ConstructorOps \cup {"add_stage", "prepend", "insert_at"}

\* C29: a non-empty sequence on which validate() fails (both $out and $merge
\* present, or a terminal token not last) cannot be repaired by adding
\* stages: after any constructor, add_stage, prepend or insert_at call
\* validate() still fails, and so, step by step, after any sequence of such
\* calls without a clear().
C29_AddingNeverRepairs ==
    [][\A x \in DOMAIN builders :
           ( /\ last'.op \in AddOps
             /\ last'.on = x
             /\ Stages(x) # <<>>
             /\ validate(heap, builders[x]) # "True" )
           => validate(heap', builders'[x]) # "True"]_vars

C29_Witness ==
    /\ last.op = "add_stage"
    /\ last.out = "self"
    /\ Len(Stages(1)) = 3
    /\ Token(1, 1) = StrV("$out")
    /\ Token(1, 2) = StrV("$match")
    /\ Token(1, 3) = StrV("$out")
    /\ Stages(1)[3] = arg
    /\ validate(heap, builders[1]) = "ValueError"

TypedTokens == {TokenOf(op) : op \in ConstructorOps}

\* Every stage of every builder is a one-key mapping whose key is a typed
\* constructor's token and not a terminal one, and validate() succeeds
\* exactly on the builders that hold a stage
TypedStages ==
    \A x \in DOMAIN builders :
        /\ \A i \in DOMAIN Stages(x) :
               /\ IsDict(heap, Stages(x)[i])
               /\ Len(heap[Stages(x)[i].n].keys) = 1
               /\ heap[Stages(x)[i].n].keys[1] \in TypedTokens \ {"$out", "$merge"}
        /\ validate(heap, builders[x]) = (IF Stages(x) # <<>> THEN "True" ELSE "ValueError")

\* C30: in every state reached with the typed stage constructors, clear and
\* copy alone, every element of every sequence is a mapping with exactly one
\* key, that key is the fixed token of the constructor that appended it
\* ($match for match, ..., $set for set_field) and never $out or $merge, and
\* validate() succeeds exactly when the sequence is not empty.
C30_TypedStagesValidate ==
    /\ []TypedStages
    /\ [][\A x \in DOMAIN builders :
              ( /\ last'.op \in ConstructorOps
                /\ last'.on = x
                /\ heap'[builders'[x]].items # Stages(x) )
              => /\ Extended(x)
                 /\ Appended(x).keys = <<TokenOf(last'.op)>>]_vars

C30_Witness ==
    /\ last.op = "set_field"
    /\ last.out = "self"
    /\ Len(builders) = 2
    /\ Len(Stages(1)) = 1
    /\ Len(Stages(2)) = 2
    /\ Token(2, 2) = StrV("$set")
    /\ validate(heap, builders[1]) = "True"
    /\ validate(heap, builders[2]) = "True"

====
